---- MODULE Spec2Model ----
(***************************************************************************)
(* LSB steganography tool (src/demo.py): LSBSystem's bit codec, encode,    *)
(* decode and calculate_psnr, and App.do_calc_psnr.                        *)
(*                                                                         *)
(* A text is a sequence of Unicode code points, a byte string a sequence   *)
(* of 0..255, a bit string a sequence of 0/1 (MSB first).  A Python int of *)
(* arbitrary precision is kept as its binary digits without leading zeros  *)
(* (zero is the empty sequence), so that 112-bit payloads do not overflow. *)
(* An image file is the RGB array numpy sees: width, height and the flat   *)
(* row-major, channel-interleaved bytes.                                   *)
(***************************************************************************)
EXTENDS Integers, Sequences, FiniteSets, TLC

VARIABLES files, ret

vars == <<files, ret>>

\* ------------------------------------------------------------------ bounds
\* Most U+0000 characters in front of a text the callers pass.
MaxLeadingNuls == 1

\* self.header_len
header_len == 32

\* ------------------------------------------------------------- Python ints
Min(a, b) == IF a < b THEN a ELSE b

Max(a, b) == IF a > b THEN a ELSE b

RECURSIVE StripZeros(_)
\* int(bits, 2) / int.from_bytes on the digits: drop the leading zeros.
StripZeros(bits) ==
  IF bits = <<>> THEN <<>>
  ELSE IF bits[1] = 1 THEN bits
  ELSE StripZeros(Tail(bits))

\* str.zfill(width): left-pad with "0"; never truncates.
zfill(bits, width) ==
  IF Len(bits) >= width THEN bits
  ELSE [i \in 1..(width - Len(bits)) |-> 0] \o bits

\* bin(n)[2:] of an int kept as digits: "0" for zero.
bin(n) == IF n = <<>> THEN <<0>> ELSE n

RECURSIVE NatToDigits(_)
\* The digits of a small machine integer (len(text_bits)).
NatToDigits(k) == IF k = 0 THEN <<>> ELSE NatToDigits(k \div 2) \o <<k % 2>>

RECURSIVE DigitsToNat(_)
\* The value of at most 30 digits.
DigitsToNat(n) ==
  IF n = <<>> THEN 0 ELSE 2 * DigitsToNat(SubSeq(n, 1, Len(n) - 1)) + n[Len(n)]

\* n > k for an int n kept as digits and a machine integer k < 2^30.
IntGt(n, k) == IF Len(n) > 30 THEN TRUE ELSE DigitsToNat(n) > k

\* The bits of a byte string, MSB first.
BytesToBits(bytes) ==
  [i \in 1..(8 * Len(bytes)) |->
     (bytes[((i - 1) \div 8) + 1] \div (2 ^ (7 - ((i - 1) % 8)))) % 2]

\* int.from_bytes(bytes, 'big')
int_from_bytes(bytes) == StripZeros(BytesToBits(bytes))

\* n.to_bytes(length, 'big') for length = (n.bit_length() + 7) // 8
int_to_bytes(n, length) ==
  LET padded == zfill(n, 8 * length)
  IN [k \in 1..length |->
        DigitsToNat(SubSeq(padded, 8 * (k - 1) + 1, 8 * k))]

\* ------------------------------------------------------------------ UTF-8
\* str.encode('utf-8') of one code point (no surrogates among the inputs).
Utf8EncodeChar(c) ==
  IF c < 128 THEN <<c>>
  ELSE IF c < 2048 THEN <<192 + (c \div 64), 128 + (c % 64)>>
  ELSE IF c < 65536
       THEN <<224 + (c \div 4096), 128 + ((c \div 64) % 64), 128 + (c % 64)>>
  ELSE <<240 + (c \div 262144), 128 + ((c \div 4096) % 64),
         128 + ((c \div 64) % 64), 128 + (c % 64)>>

RECURSIVE Utf8Encode(_)
\* text.encode('utf-8')
Utf8Encode(text) ==
  IF text = <<>> THEN <<>>
  ELSE Utf8EncodeChar(Head(text)) \o Utf8Encode(Tail(text))

RECURSIVE Utf8DecodeFrom(_, _)
\* bytes.decode('utf-8', errors='ignore') from index i on: a well-formed
\* sequence yields its code point; an invalid start byte is skipped alone; a
\* start byte followed by too few valid continuation bytes is skipped with
\* the continuation bytes that were valid.
Utf8DecodeFrom(b, i) ==
  IF i > Len(b) THEN <<>>
  ELSE
    LET b0 == b[i]
        need == IF b0 < 128 THEN 0
                ELSE IF b0 \in 194..223 THEN 1
                ELSE IF b0 \in 224..239 THEN 2
                ELSE IF b0 \in 240..244 THEN 3
                ELSE -1
        lo2 == IF b0 = 224 THEN 160 ELSE IF b0 = 240 THEN 144 ELSE 128
        hi2 == IF b0 = 237 THEN 159 ELSE IF b0 = 244 THEN 143 ELSE 191
        ContOk(k) == /\ i + k <= Len(b)
                     /\ IF k = 1 THEN b[i + 1] \in lo2..hi2
                                 ELSE b[i + k] \in 128..191
        good == Cardinality({m \in 1..Max(need, 0) : \A k \in 1..m : ContOk(k)})
        cp == IF need = 0 THEN b0
              ELSE IF need = 1 THEN (b0 - 192) * 64 + (b[i + 1] - 128)
              ELSE IF need = 2
                   THEN (b0 - 224) * 4096 + (b[i + 1] - 128) * 64 + (b[i + 2] - 128)
              ELSE (b0 - 240) * 262144 + (b[i + 1] - 128) * 4096
                   + (b[i + 2] - 128) * 64 + (b[i + 3] - 128)
    IN IF need = -1 THEN Utf8DecodeFrom(b, i + 1)
       ELSE IF good = need THEN <<cp>> \o Utf8DecodeFrom(b, i + need + 1)
       ELSE Utf8DecodeFrom(b, i + good + 1)

\* bytes.decode('utf-8', errors='ignore')
Utf8Decode(b) == Utf8DecodeFrom(b, 1)

\* -------------------------------------------------------------- bit codec
\* "[解码错误]", what bits_to_text returns from its except clause.
DecodeErrorText == <<91, 35299, 30721, 38169, 35823, 93>>

\* "错误：未能检测到有效的隐写标记", what decode returns for an oversized header.
NoMarkerText ==
  <<38169, 35823, 65306, 26410, 33021, 26816, 27979, 21040, 26377, 25928,
    30340, 38544, 20889, 26631, 35760>>

\* LSBSystem.text_to_bits
text_to_bits(text) ==
  LET bits == bin(int_from_bytes(Utf8Encode(text)))
  IN zfill(bits, 8 * ((Len(bits) + 7) \div 8))

\* LSBSystem.bits_to_text: int('', 2) raises ValueError, which the bare
\* except turns into the error marker; nothing else in the try can raise.
bits_to_text(bits) ==
  IF bits = <<>> THEN DecodeErrorText
  ELSE LET n == StripZeros(bits)
       IN Utf8Decode(int_to_bytes(n, (Len(n) + 7) \div 8))

\* ------------------------------------------------------------------ images
\* np.array(Image.open(path).convert('RGB')) of shape (height, width, 3),
\* with reshape(-1) kept as data.
RGB(width, height, data) == [width |-> width, height |-> height, data |-> data]

\* max_capacity = total_pixels * 3
max_capacity(img) == (img.width * img.height) * 3

\* length_bits holding the byte length of the payload, not its bit length.
length_bytes(text_bits) == zfill(bin(NatToDigits(Len(text_bits) \div 8)), header_len)

\* bin(len(text_bits))[2:].zfill(self.header_len)
length_bits(text_bits) == zfill(bin(NatToDigits(Len(text_bits))), header_len)

\* full_bits = length_bits + text_bits
full_bits(secret_text) ==
  LET text_bits == text_to_bits(secret_text)
  IN length_bits(text_bits) \o text_bits

\* TooLong with the comparison off by one (>= for >).
TooLongAtCapacity(bits, capacity) == Len(bits) >= capacity

\* if len(full_bits) > max_capacity: raise ValueError
TooLong(bits, capacity) == Len(bits) > capacity

\* ReplaceLsb with the mask 252 for 254: bit 1 is cleared too.
ReplaceLow2(byte, bit) == (byte - (byte % 4)) + bit

\* ReplaceLsb without the mask: byte | bit, a set LSB is never cleared.
OrLsb(byte, bit) == IF byte % 2 = 1 THEN byte ELSE byte + bit

\* (byte & 254) | bit
ReplaceLsb(byte, bit) == (byte - (byte % 2)) + bit

\* flat_array[:len(bit_list)] = (flat_array[:len(bit_list)] & 254) | bit_list
\* (the slice is no longer than either operand here: the capacity check has
\* passed), the rest of flat_array staying as it is.
EmbedBits(flat_array, bit_list) ==
  LET n == Min(Len(bit_list), Len(flat_array))
  IN [i \in 1..n |-> ReplaceLsb(flat_array[i], bit_list[i])]
       \o SubSeq(flat_array, n + 1, Len(flat_array))

\* The array encode saves: the embedded flat array reshaped to
\* (height, width, 3).
encode_image(img, secret_text) ==
  RGB(img.width, img.height, EmbedBits(img.data, full_bits(secret_text)))

\* lsb_bits = flat_array & 1
lsb_bits(img) == [i \in 1..Len(img.data) |-> img.data[i] % 2]

\* The text decode returns for the array of an image file.
decode_image(img) ==
  LET lsb == lsb_bits(img)
      length_str == SubSeq(lsb, 1, Min(header_len, Len(lsb)))
      msg_len == StripZeros(length_str)
  IN IF IntGt(msg_len, Len(lsb) - header_len) THEN NoMarkerText
     ELSE bits_to_text(SubSeq(lsb, header_len + 1, header_len + DigitsToNat(msg_len)))

\* ------------------------------------------------------------------- PSNR
\* numpy broadcasting of (h1, w1, 3) against (h2, w2, 3): each axis must
\* agree or be 1 on one side; otherwise img1 - img2 raises ValueError.
Broadcastable(img1, img2) ==
  /\ img1.height = img2.height \/ img1.height = 1 \/ img2.height = 1
  /\ img1.width = img2.width \/ img1.width = 1 \/ img2.width = 1

\* Element [r, c, k] of img as broadcast: an axis of length 1 is repeated.
Sample(img, r, c, k) ==
  img.data[((IF img.height = 1 THEN 0 ELSE r) * img.width
            + (IF img.width = 1 THEN 0 ELSE c)) * 3 + k + 1]

RECURSIVE SumSq(_, _, _, _, _)
\* Sum over the elements lo..hi (row-major, from 0) of (img1 - img2) ** 2,
\* the broadcast result being w wide.
SumSq(img1, img2, w, lo, hi) ==
  IF lo > hi THEN 0
  ELSE IF lo = hi
  THEN LET r == lo \div (3 * w)
           c == (lo \div 3) % w
           k == lo % 3
           d == Sample(img1, r, c, k) - Sample(img2, r, c, k)
       IN d * d
  ELSE LET mid == (lo + hi) \div 2
       IN SumSq(img1, img2, w, lo, mid) + SumSq(img1, img2, w, mid + 1, hi)

\* LSBSystem.calculate_psnr on two arrays: ValueError when the shapes do not
\* broadcast, inf when mse == 0, else 10 * log10(255**2 / mse) with
\* mse = sse / n (kept as the pair, log10 not being computable here).
calculate_psnr(img1, img2) ==
  IF ~Broadcastable(img1, img2)
  THEN [raised |-> "ValueError", inf |-> FALSE, sse |-> 0, n |-> 0]
  ELSE LET h == Max(img1.height, img2.height)
           w == Max(img1.width, img2.width)
           sse == SumSq(img1, img2, w, 0, h * w * 3 - 1)
       IN IF sse = 0
          THEN [raised |-> "", inf |-> TRUE, sse |-> 0, n |-> h * w * 3]
          ELSE [raised |-> "", inf |-> FALSE, sse |-> sse, n |-> h * w * 3]

\* ----------------------------------------------------------------- inputs
\* "A", "AA", "e acute" (2 bytes of UTF-8), "hello"
PlainTexts ==
  {<<>>, <<65>>, <<65, 65>>, <<233>>, <<104, 101, 108, 108, 111>>, DecodeErrorText}

\* k times U+0000
Nuls(k) == [i \in 1..k |-> 0]

\* The secret texts passed to encode and text_to_bits.
Texts == {Nuls(k) \o t : k \in 0..MaxLeadingNuls, t \in PlainTexts}

\* Channel byte at flat index i (from 1) of the synthetic carriers.
Fill(pattern, i) ==
  IF pattern = "zero" THEN 0
  ELSE IF pattern = "even" THEN 2 * (i % 100)
  ELSE IF pattern = "max" THEN 255
  ELSE (i * 37 + 11) % 256

Carrier(width, height, pattern) ==
  RGB(width, height, [i \in 1..(width * height * 3) |-> Fill(pattern, i)])

\* A 14x1 image whose LSBs already hold a header of 8 and the payload FF
\* (no valid UTF-8), over even bytes.
Garbled ==
  RGB(14, 1, EmbedBits([i \in 1..42 |-> Fill("even", i)],
                       length_bits(BytesToBits(<<255>>)) \o BytesToBits(<<255>>)))

\* The image files the user picks as carrier.
Carriers ==
  { Carrier(2, 2, "even"), Carrier(4, 4, "even"), Carrier(4, 4, "ramp"),
    Carrier(13, 1, "ramp"), Carrier(6, 4, "ramp"), Garbled,
    Carrier(8, 6, "ramp"), Carrier(10, 10, "ramp") }

\* The images the user picks on the PSNR tab.
PsnrImages ==
  { Carrier(1, 1, "zero"), Carrier(1, 1, "ramp"), Carrier(4, 1, "ramp"),
    Carrier(1, 4, "even"), Carrier(4, 4, "even"), Carrier(4, 4, "ramp"),
    Carrier(2, 2, "even"), Carrier(2, 2, "max") }

\* Paths of image files the user picks.
ImagePaths == {"carrier.png", "stego.png"}

\* Paths the user gives as output_path.
OutputPaths == {"stego.png", "stego"}

\* if not output_path.lower().endswith(".png"): output_path += ".png"
PngPath(output_path) == IF output_path = "stego" THEN "stego.png" ELSE output_path

\* ------------------------------------------------------------------ state
\* files: the image files on disk, path -> RGB array.
\* ret:   the last call made on LSBSystem / App, with its arguments and outcome.
Init ==
  /\ \E c \in Carriers : files = [p \in {"carrier.png"} |-> c]
  /\ ret = [op |-> "none"]

\* new_img.save(output_path)
Save(fs, path, img) ==
  [p \in (DOMAIN fs) \cup {path} |-> IF p = path THEN img ELSE fs[p]]

\* LSBSystem.text_to_bits(text)
TextToBits(text) ==
  /\ ret' = [op |-> "text_to_bits", text |-> text, result |-> text_to_bits(text)]
  /\ UNCHANGED files

\* Encode with the capacity check made after embedding and saving: the bits
\* that fit are written before the too-long error is raised.
EncodeSavesFirst(image_path, secret_text, output_path) ==
  LET call == [op |-> "encode", image_path |-> image_path,
               secret_text |-> secret_text]
  IN IF image_path \notin DOMAIN files
     THEN /\ ret' = call @@ [raised |-> "FileNotFoundError", result |-> ""]
          /\ UNCHANGED files
     ELSE /\ files' = Save(files, PngPath(output_path),
                           encode_image(files[image_path], secret_text))
          /\ ret' = IF TooLong(full_bits(secret_text),
                               max_capacity(files[image_path]))
                    THEN call @@ [raised |-> "ValueError", result |-> ""]
                    ELSE call @@ [raised |-> "", result |-> PngPath(output_path)]

\* LSBSystem.encode(image_path, secret_text, output_path)
Encode(image_path, secret_text, output_path) ==
  LET call == [op |-> "encode", image_path |-> image_path,
               secret_text |-> secret_text]
  IN IF image_path \notin DOMAIN files
     THEN /\ ret' = call @@ [raised |-> "FileNotFoundError", result |-> ""]
          /\ UNCHANGED files
     ELSE IF TooLong(full_bits(secret_text), max_capacity(files[image_path]))
     THEN /\ ret' = call @@ [raised |-> "ValueError", result |-> ""]
          /\ UNCHANGED files
     ELSE /\ files' = Save(files, PngPath(output_path),
                           encode_image(files[image_path], secret_text))
          /\ ret' = call @@ [raised |-> "", result |-> PngPath(output_path)]

\* LSBSystem.decode(image_path)
Decode(image_path) ==
  /\ ret' = IF image_path \notin DOMAIN files
            THEN [op |-> "decode", image_path |-> image_path,
                  raised |-> "FileNotFoundError", result |-> <<>>]
            ELSE [op |-> "decode", image_path |-> image_path,
                  raised |-> "", result |-> decode_image(files[image_path])]
  /\ UNCHANGED files

\* App.do_calc_psnr with psnr_p1, psnr_p2 set: the label shows the value
\* calculate_psnr returns, the error box shows when it raises.
do_calc_psnr(psnr_p1, psnr_p2) ==
  LET val == IF {psnr_p1, psnr_p2} \subseteq DOMAIN files
             THEN calculate_psnr(files[psnr_p1], files[psnr_p2])
             ELSE [raised |-> "FileNotFoundError", inf |-> FALSE, sse |-> 0, n |-> 0]
  IN /\ ret' = [op |-> "do_calc_psnr", psnr_p1 |-> psnr_p1, psnr_p2 |-> psnr_p2,
                shown |-> IF val.raised = "" THEN "label" ELSE "showerror",
                val |-> val]
     /\ UNCHANGED files

Next ==
  \/ \E text \in Texts : TextToBits(text)
  \/ \E image_path \in ImagePaths, secret_text \in Texts,
        output_path \in OutputPaths :
       Encode(image_path, secret_text, output_path)
  \/ \E image_path \in ImagePaths : Decode(image_path)

Spec == Init /\ [][Next]_vars

\* The PSNR tab alone: two picked images (and a path with no file), compared
\* in every order.
PsnrInit ==
  /\ \E a \in PsnrImages, b \in PsnrImages :
       files = [p \in ImagePaths |-> IF p = "carrier.png" THEN a ELSE b]
  /\ ret = [op |-> "none"]

PsnrNext ==
  \E psnr_p1 \in ImagePaths \cup {"missing.png"},
     psnr_p2 \in ImagePaths \cup {"missing.png"} :
    do_calc_psnr(psnr_p1, psnr_p2)

PsnrSpec == PsnrInit /\ [][PsnrNext]_vars

\* ------------------------------------------------------------- properties
\* encode returned its output path.
EncodeReturned == ret.op = "encode" /\ ret.raised = ""

\* encode raised the too-long ValueError.
EncodeTooLong == ret.op = "encode" /\ ret.raised = "ValueError"

\* Bits encode needs for secret_text: the header and the payload.
RequiredBits(secret_text) == header_len + Len(text_to_bits(secret_text))

\* C1 (as claimed): whenever encode succeeds on a text T, decode of the image
\* it wrote returns exactly T, the empty text and texts that begin with
\* U+0000 included.
C1_RoundTrip ==
  EncodeReturned => decode_image(files[ret.result]) = ret.secret_text

\* C2: an encode call on an existing image returns when header plus payload
\* bits are at most width*height*3 (equality included) and raises the
\* too-long error when they exceed it, by one bit or more.
C2_CapacityBoundary ==
  [][(ret'.op = "encode" /\ ret'.image_path \in DOMAIN files) =>
       LET capacity == max_capacity(files[ret'.image_path])
           required == RequiredBits(ret'.secret_text)
       IN /\ required <= capacity => ret'.raised = ""
          /\ required > capacity => ret'.raised = "ValueError"]_vars

\* C2 witness: encode returned with header plus payload exactly filling the
\* image.
C2_ExactFit ==
  /\ EncodeReturned
  /\ RequiredBits(ret.secret_text) = max_capacity(files[ret.result])

\* C3: an encode call that raises the too-long error leaves every image file
\* as it was: nothing is embedded and nothing is written.
C3_AllOrNothing == [][EncodeTooLong' => files' = files]_vars

\* C3 witness: encode raised the too-long error while an earlier stego image
\* is on disk.
C3_Refused == EncodeTooLong /\ "stego.png" \in DOMAIN files

\* C4: a successful encode writes an image of the source's width and height
\* whose every channel byte keeps the source byte's high 7 bits, and whose
\* bytes from flat index N = 32 + payload bits on equal the source's.
C4_OnlyLsbsOfPrefix ==
  [][EncodeReturned' =>
       LET src == files[ret'.image_path]
           out == files'[ret'.result]
           N == RequiredBits(ret'.secret_text)
           len == Len(src.data)
       IN /\ out.width = src.width /\ out.height = src.height
          /\ Len(out.data) = len
          /\ [i \in 1..len |-> out.data[i] \div 2] = [i \in 1..len |-> src.data[i] \div 2]
          /\ SubSeq(out.data, N + 1, len) = SubSeq(src.data, N + 1, len)]_vars

\* C4 witness: encode returned, changed some byte of the carrier and left
\* bytes beyond the embedded prefix.
C4_Embedded ==
  /\ EncodeReturned
  /\ ret.image_path = "carrier.png"
  /\ files[ret.result] # files["carrier.png"]
  /\ RequiredBits(ret.secret_text) < max_capacity(files[ret.result])

\* C5: after a successful encode the LSBs of bytes 0..31 of the written
\* image, read MSB first, are the payload's length in bits, and the LSB of
\* byte 32+i is payload bit i.
C5_StegoLayout ==
  EncodeReturned =>
    LET lsb == lsb_bits(files[ret.result])
        payload == text_to_bits(ret.secret_text)
    IN /\ DigitsToNat(StripZeros(SubSeq(lsb, 1, header_len))) = Len(payload)
       /\ SubSeq(lsb, header_len + 1, header_len + Len(payload)) = payload

\* C5 witness: encode returned for a payload of more than one byte.
C5_LongPayload == EncodeReturned /\ Len(text_to_bits(ret.secret_text)) > 8

\* C6 (as claimed): decode of an image of at least 32 channel bytes, all
\* with LSB 0, returns the empty text.
C6_ZeroImageEmpty ==
  (/\ ret.op = "decode" /\ ret.raised = ""
   /\ Len(files[ret.image_path].data) >= header_len
   /\ \A i \in 1..Len(files[ret.image_path].data) :
        files[ret.image_path].data[i] % 2 = 0)
    => ret.result = <<>>

\* C7 (as claimed): for two images whose width or height differ,
\* calculate_psnr raises (the error box shows) and no value is returned.
C7_ShapeGuard ==
  (/\ ret.op = "do_calc_psnr"
   /\ {ret.psnr_p1, ret.psnr_p2} \subseteq DOMAIN files
   /\ \/ files[ret.psnr_p1].width # files[ret.psnr_p2].width
      \/ files[ret.psnr_p1].height # files[ret.psnr_p2].height)
    => ret.shown = "showerror"

\* C8 (as claimed): text_to_bits returns the bits, MSB first, of the text's
\* UTF-8 bytes: 8 bits per byte, none for the empty text, none lost to
\* leading zero bytes.
C8_BitsOfUtf8 ==
  ret.op = "text_to_bits" => ret.result = BytesToBits(Utf8Encode(ret.text))

\* C9 (as claimed): what decode returns for a successfully embedded message
\* is never one of the values decode returns on failure.
C9_FailuresDistinct ==
  EncodeReturned =>
    decode_image(files[ret.result]) \notin {NoMarkerText, DecodeErrorText}

\* C10: whatever was encoded before into the running result, after a
\* successful encode of a message decode returns what it returns for that
\* message encoded alone into the original carrier; and encoding the message
\* the running result was just encoded with leaves the image as it is.
C10_LastEmbedWins ==
  [][EncodeReturned' =>
       /\ \A alone \in {encode_image(files["carrier.png"], ret'.secret_text)} :
            decode_image(files'[ret'.result]) = decode_image(alone)
       /\ (/\ EncodeReturned
           /\ ret'.image_path = ret.result
           /\ ret'.secret_text = ret.secret_text)
            => files'[ret'.result] = files[ret.result]]_vars

\* C10 witness: encode returned on a running result that still carries bits
\* of an earlier, longer message beyond the new one.
C10_Overwritten ==
  /\ EncodeReturned
  /\ ret.image_path = "stego.png"
  /\ files[ret.result] # encode_image(files["carrier.png"], ret.secret_text)

====
